---- MODULE Spec2Model ----
(***************************************************************************)
(* Wallet Registration API (src/main.py): the wallets collection, the      *)
(* POST /register handler with its referral-code allocator, and the        *)
(* GET /stats handler.  Every awaited store operation is one step of a     *)
(* handler; handlers of concurrent requests interleave at those steps.     *)
(***************************************************************************)
EXTENDS Integers, Sequences, FiniteSets, TLC

\* ------------------------------------------------------------------ bounds
\* Register requests started in one behaviour of SpecSeq.
MaxCalls == 3
\* Register requests started in one behaviour of SpecAlloc.
MaxAllocCalls == 5
\* Register requests started in one behaviour of SpecRace.
MaxRaceCalls == 2
MaxReferCalls == 3
\* Register requests started in one behaviour of SpecStats.
MaxStatsCalls == 3
\* Distinct outcomes of one random draw, per code length.
NumDraws == 1
\* Requests between two UTC midnights, as the clock counts them.
DayLen == 2

\* ------------------------------------------------------- program constants
DefaultLength == 6
RetryLength == 7
LongLength == 8
LongFrom == 5
MaxAttempts == 10
FallbackLen == 13
TopLimit == 5

\* ------------------------------------------------------------------ values
\* Strings the program compares: Python None, the empty string, a code of
\* the alphabet A-Z0-9 of a given length, and a "REF" + 10 hex digits code.
\* id tells apart the strings of one kind and length.
None == [kind |-> "none", len |-> 0, id |-> 0]
EmptyStr == [kind |-> "str", len |-> 0, id |-> 0]
Alnum(l, i) == [kind |-> "alnum", len |-> l, id |-> i]
RefHex(i) == [kind |-> "ref", len |-> FallbackLen, id |-> i]

\* A code nobody was ever given ("NOPE00" of the spec's scenario).
Bogus == Alnum(DefaultLength, 0)

\* Wallet addresses: 1, 2, ... stand for distinct strings of 20..100
\* characters (WalletRequest, line 27); no behaviour needs more of them than
\* it has requests.
Addresses == 1..(MaxCalls + MaxAllocCalls + MaxRaceCalls + MaxStatsCalls)
NoWallet == 0

\* v is not None.
NotNull(v) == v.kind # "none"
\* Python truthiness of an Optional[str]: None and "" are falsy.
Truthy(v) == v.kind # "none" /\ v.len > 0

\* random.choices over A-Z0-9, k = length.
generate_referral_code(length) == {Alnum(length, i) : i \in 1..NumDraws}

\* "REF" + secrets.token_hex(5).upper()
FallbackCodes == {RefHex(i) : i \in 1..NumDraws}

\* length=7 if counter < 5 else 8
\* (variant: counter <= 5)
LengthForOffByOne(counter) ==
    IF counter <= LongFrom THEN RetryLength ELSE LongLength
LengthFor(counter) == IF counter < LongFrom THEN RetryLength ELSE LongLength

\* if counter > 10
\* (variant: counter > 11)
ExhaustedLate(counter) == counter > MaxAttempts + 1
Exhausted(counter) == counter > MaxAttempts

\* ------------------------------------------------------------------- store
\* A document of db.database.wallets.  _id is the insertion index; a
\* referral_count of 0 is the absent field ($inc creates it as 1, readers
\* use .get("referral_count", 0)).
NoDoc == [_id |-> 0, wallet_address |-> NoWallet, referral_code |-> None,
          referred_by |-> None, referred_by_wallet |-> NoWallet,
          referral_count |-> 0, created_at |-> 0]

Docs(s) == {s[i] : i \in 1..Len(s)}

\* find_one({"wallet_address": w}): the matching documents; find_one returns
\* one of them (the store fixes no order among several) or None.
\* (variant: the lookup finds nothing)
ByWalletNone(s, w) == {}
ByWallet(s, w) == {d \in Docs(s) : d.wallet_address = w}

\* find_one({"referral_code": c})
ByCode(s, c) == {d \in Docs(s) : d.referral_code = c}

\* existing, of get_unique_referral_code: the candidate is some document's.
\* (variant: every candidate passes as free)
CodeTakenNever(s, c) == FALSE
CodeTaken(s, c) == ByCode(s, c) # {}

\* wallet_doc of register_wallet, as insert_one stores it.
\* (variant: referred_by is left out of the document)
WalletDocWithoutReferral(s, w, c, rb, ref, now) ==
    [_id |-> Len(s) + 1, wallet_address |-> w, referral_code |-> c,
     referred_by |-> None,
     referred_by_wallet |-> IF ref._id # 0 THEN ref.wallet_address ELSE NoWallet,
     referral_count |-> 0, created_at |-> now]
WalletDoc(s, w, c, rb, ref, now) ==
    [_id |-> Len(s) + 1, wallet_address |-> w, referral_code |-> c,
     referred_by |-> rb,
     referred_by_wallet |-> IF ref._id # 0 THEN ref.wallet_address ELSE NoWallet,
     referral_count |-> 0, created_at |-> now]

\* update_one({"_id": id}, {"$inc": {"referral_count": 1}})
\* (variants: the filter matches every document; $set to 1; $inc by 2)
IncCountAllDocs(s, id) ==
    [i \in 1..Len(s) |-> [s[i] EXCEPT !.referral_count = @ + 1]]
IncCountSet1(s, id) ==
    [i \in 1..Len(s) |->
        IF s[i]._id = id THEN [s[i] EXCEPT !.referral_count = 1] ELSE s[i]]
IncCountBy2(s, id) ==
    [i \in 1..Len(s) |->
        IF s[i]._id = id THEN [s[i] EXCEPT !.referral_count = @ + 2] ELSE s[i]]
IncCount(s, id) ==
    [i \in 1..Len(s) |->
        IF s[i]._id = id THEN [s[i] EXCEPT !.referral_count = @ + 1] ELSE s[i]]

\* --------------------------------------------------------------- responses
Response(ok, msg, c, w, rb) ==
    [success |-> ok, message |-> msg, referral_code |-> c,
     wallet_address |-> w, referred_by |-> rb]

NoResp == Response(FALSE, "", EmptyStr, NoWallet, None)

\* The response of line 136.  (Variants: own code rejected first; the code
\* read under a wrong key; referred_by echoed from the request.)
AlreadyRegisteredUnlessOwnCode(r, existing) ==
    IF r.referred_by = existing.referral_code
    THEN Response(FALSE, "Cannot refer yourself", EmptyStr, r.wallet_address,
                  None)
    ELSE Response(TRUE, "Wallet already registered", existing.referral_code,
                  r.wallet_address, existing.referred_by)
AlreadyRegisteredEmptyCode(r, existing) ==
    Response(TRUE, "Wallet already registered", EmptyStr, r.wallet_address,
             existing.referred_by)
AlreadyRegisteredEchoingRequest(r, existing) ==
    Response(TRUE, "Wallet already registered", existing.referral_code,
             r.wallet_address, r.referred_by)
AlreadyRegistered(r, existing) ==
    Response(TRUE, "Wallet already registered", existing.referral_code,
             r.wallet_address, existing.referred_by)

InvalidReferral(r) ==
    Response(FALSE, "Invalid referral code", EmptyStr, r.wallet_address, None)

\* referrer_wallet["wallet_address"] == wallet_data.wallet_address
\* (variant: the comparison is never true)
IsSelfReferralNever(d, r) == FALSE
IsSelfReferral(d, r) == d.wallet_address = r.wallet_address

SelfReferral(r) ==
    Response(FALSE, "Cannot refer yourself", EmptyStr, r.wallet_address, None)

Registered(r, c) ==
    Response(TRUE, "Wallet registered successfully", c, r.wallet_address,
             r.referred_by)

\* The response of line 215.  (Variant: the response of line 206.)
InternalErrorAsInsertFailure(r) ==
    Response(FALSE, "Failed to register wallet", EmptyStr, r.wallet_address,
             None)
InternalError(r) ==
    Response(FALSE, "Internal server error", EmptyStr, r.wallet_address, None)

\* ------------------------------------------------------------------- stats
\* datetime.utcnow().replace(hour=0, minute=0, second=0, microsecond=0)
Midnight(now) == now - (now % DayLen)

\* count_documents({"created_at": {"$gte": since}})
CountSince(s, since) == Cardinality({d \in Docs(s) : d.created_at >= since})

\* count_documents({"referred_by": {"$ne": None}})
CountReferred(s) == Cardinality({d \in Docs(s) : d.referred_by # None})

\* round(n / d, 0) for d > 0, as Python rounds: to the nearest, ties to even.
RoundDiv(n, d) ==
    LET q == n \div d
        r == n % d
    IN  IF 2 * r < d THEN q
        ELSE IF 2 * r > d THEN q + 1
        ELSE IF q % 2 = 0 THEN q ELSE q + 1

\* round(referred / total * 100, 2) if total > 0 else 0, in hundredths of a
\* percent; dividing by 0 raises ZeroDivisionError.
\* (Variant: the guard is total >= 0.)
PercentageUnguarded(referred, total) ==
    IF total >= 0
    THEN IF total = 0
         THEN [raised |-> TRUE, value |-> 0]
         ELSE [raised |-> FALSE, value |-> RoundDiv(referred * 10000, total)]
    ELSE [raised |-> FALSE, value |-> 0]
Percentage(referred, total) ==
    IF total > 0
    THEN [raised |-> FALSE, value |-> RoundDiv(referred * 10000, total)]
    ELSE [raised |-> FALSE, value |-> 0]

\* find({"referral_count": {"$gt": 0}}, projection).sort("referral_count", -1)
\* .limit(5): the lists the store may answer (it fixes no order among equal
\* counts).
Projected(d) ==
    [_id |-> d._id, wallet_address |-> d.wallet_address,
     referral_code |-> d.referral_code, referral_count |-> d.referral_count]
TopReferrers(s) ==
    LET pos == {d \in Docs(s) : d.referral_count > 0}
        k == IF Cardinality(pos) < TopLimit THEN Cardinality(pos) ELSE TopLimit
    IN  {[i \in 1..k |-> Projected(f[i])] :
            f \in {g \in [1..k -> pos] :
                     /\ \A i, j \in 1..k : i < j =>
                           /\ g[i] # g[j]
                           /\ g[i].referral_count >= g[j].referral_count
                     /\ \A d \in pos : (\A i \in 1..k : g[i] # d) =>
                           \A i \in 1..k : g[i].referral_count >= d.referral_count}}

StatsOk(total, recent, referred, pct, top) ==
    [status |-> 200, total_registered_wallets |-> total,
     registrations_today |-> recent, wallets_with_referral |-> referred,
     referral_percentage |-> pct, top_referrers |-> top,
     detail |-> ""]

\* HTTPException(status_code=500, detail="Failed to get statistics")
StatsFailed ==
    [status |-> 500, total_registered_wallets |-> 0, registrations_today |-> 0,
     wallets_with_referral |-> 0, referral_percentage |-> 0,
     top_referrers |-> <<>>, detail |-> "Failed to get statistics"]

NoStats ==
    [status |-> 0, total_registered_wallets |-> 0, registrations_today |-> 0,
     wallets_with_referral |-> 0, referral_percentage |-> 0,
     top_referrers |-> <<>>, detail |-> ""]

\* ------------------------------------------------------------------- state
Procs == {1, 2}

VARIABLES
    store,      \* the wallets collection, in insertion order
    clock,      \* register requests started so far; also datetime.utcnow()
    pc,         \* where each register handler stands
    req,        \* wallet_data of each handler
    referrer,   \* referrer_wallet
    cand,       \* referral_code_candidate
    counter,    \* counter of get_unique_referral_code
    code,       \* referral_code returned by the allocator
    resp,       \* the WalletResponse returned
    stats,      \* the GET /stats handler: its place, locals and response
    pre,        \* history: the store when the request arrived
    prior,      \* history: the first success response for the request's
                \* address, as known when the request arrived
    raised,     \* history: the store operation that raised in this request
    seen,       \* history: the store's length at the handler's lookups,
                \* and the lookups its allocator has made
    hist,       \* history: per document, the seen of the handler that
                \* inserted it
    firstResp   \* history: per address, the first success response

locals == <<referrer, cand, counter, code, seen>>
vars == <<store, clock, pc, req, referrer, cand, counter, code, resp, stats,
          pre, prior, raised, seen, hist, firstResp>>

RefInputs ==
    {None, EmptyStr, Bogus} \cup generate_referral_code(DefaultLength)
        \cup generate_referral_code(RetryLength) \cup FallbackCodes

\* The referred_by values of SpecRace: none, the empty string, and the codes
\* a first registration can be given.
FewRefInputs == {None, EmptyStr} \cup generate_referral_code(DefaultLength)

\* The referred_by values of SpecStats: none, and the codes a first
\* registration can be given.
StatsRefInputs == {None} \cup generate_referral_code(DefaultLength)

NoSeen == [wallet |-> 0, code |-> 0, lookups |-> 0]

StatsIdle ==
    [pc |-> "idle", total |-> 0, yesterday |-> 0, recent |-> 0, referred |-> 0,
     resp |-> NoStats, raised |-> FALSE, reflen |-> 0]

Init ==
    /\ store = <<>>
    /\ clock = 0
    /\ pc = [p \in Procs |-> "idle"]
    /\ req = [p \in Procs |-> [wallet_address |-> NoWallet, referred_by |-> None]]
    /\ referrer = [p \in Procs |-> NoDoc]
    /\ cand = [p \in Procs |-> None]
    /\ counter = [p \in Procs |-> 0]
    /\ code = [p \in Procs |-> None]
    /\ resp = [p \in Procs |-> NoResp]
    /\ stats = StatsIdle
    /\ pre = [p \in Procs |-> <<>>]
    /\ prior = [p \in Procs |-> NoResp]
    /\ raised = [p \in Procs |-> ""]
    /\ seen = [p \in Procs |-> NoSeen]
    /\ hist = <<>>
    /\ firstResp = [w \in Addresses |-> NoResp]

\* The handler returns r; its locals go out of scope.
Return(p, r) ==
    /\ pc' = [pc EXCEPT ![p] = "done"]
    /\ resp' = [resp EXCEPT ![p] = r]
    /\ referrer' = [referrer EXCEPT ![p] = NoDoc]
    /\ cand' = [cand EXCEPT ![p] = None]
    /\ counter' = [counter EXCEPT ![p] = 0]
    /\ code' = [code EXCEPT ![p] = None]
    /\ seen' = [seen EXCEPT ![p] = NoSeen]
    /\ firstResp' =
         IF r.success /\ firstResp[r.wallet_address] = NoResp
         THEN [firstResp EXCEPT ![r.wallet_address] = r]
         ELSE firstResp

\* The handler goes on to its next await, at l.
Goto(p, l) ==
    /\ pc' = [pc EXCEPT ![p] = l]
    /\ UNCHANGED <<resp, firstResp>>

\* get_unique_referral_code up to its first await: the first candidate.
BeginAllocation(p) ==
    /\ \E c \in generate_referral_code(DefaultLength) :
          cand' = [cand EXCEPT ![p] = c]
    /\ counter' = [counter EXCEPT ![p] = 0]
    /\ Goto(p, "check_code")

\* Addresses some document or some handler holds, and the first one nobody
\* holds: the addresses not held are interchangeable, one stands for all.
Held ==
    {store[i].wallet_address : i \in 1..Len(store)}
        \cup {req[q].wallet_address : q \in Procs}
AddrInputs ==
    {w \in Addresses : w \in Held \/ \A v \in Addresses \ Held : w <= v}

\* A POST /register request arrives.
Start(p, w, rb) ==
    /\ pc[p] \in {"idle", "done"}
    /\ clock' = clock + 1
    /\ pc' = [pc EXCEPT ![p] = "find_wallet"]
    /\ req' = [req EXCEPT ![p] = [wallet_address |-> w, referred_by |-> rb]]
    /\ resp' = [resp EXCEPT ![p] = NoResp]
    /\ pre' = [pre EXCEPT ![p] = store]
    /\ prior' = [prior EXCEPT ![p] = firstResp[w]]
    /\ raised' = [raised EXCEPT ![p] = ""]
    /\ UNCHANGED <<store, locals, stats, hist, firstResp>>

\* find_one by wallet_address returned; the handler runs to its next await.
FindWallet(p) ==
    /\ pc[p] = "find_wallet"
    /\ LET found == ByWallet(store, req[p].wallet_address) IN
       IF found # {}
       THEN \E existing \in found : Return(p, AlreadyRegistered(req[p], existing))
       ELSE /\ seen' = [seen EXCEPT ![p].wallet = Len(store)]
            /\ IF Truthy(req[p].referred_by)
               THEN /\ Goto(p, "find_referrer")
                    /\ UNCHANGED <<referrer, cand, counter, code>>
               ELSE /\ BeginAllocation(p)
                    /\ UNCHANGED <<referrer, code>>
    /\ UNCHANGED <<store, clock, req, stats, pre, prior, raised, hist>>

\* find_one by referral_code = referred_by returned.
FindReferrer(p) ==
    /\ pc[p] = "find_referrer"
    /\ LET found == ByCode(store, req[p].referred_by) IN
       IF found = {}
       THEN Return(p, InvalidReferral(req[p]))
       ELSE \E r \in found :
              IF IsSelfReferral(r, req[p])
              THEN Return(p, SelfReferral(req[p]))
              ELSE /\ referrer' = [referrer EXCEPT ![p] = r]
                   /\ BeginAllocation(p)
                   /\ UNCHANGED <<code, seen>>
    /\ UNCHANGED <<store, clock, req, stats, pre, prior, raised, hist>>

\* One turn of the allocator's loop: find_one by referral_code = candidate
\* returned.
CheckCode(p) ==
    /\ pc[p] = "check_code"
    /\ seen' = [seen EXCEPT ![p].code = Len(store), ![p].lookups = @ + 1]
    /\ IF ~CodeTaken(store, cand[p])
       THEN /\ code' = [code EXCEPT ![p] = cand[p]]
            /\ Goto(p, "insert")
            /\ UNCHANGED <<cand, counter>>
       ELSE /\ counter' = [counter EXCEPT ![p] = @ + 1]
            /\ \E c \in generate_referral_code(LengthFor(counter[p] + 1)) :
                  cand' = [cand EXCEPT ![p] = c]
            /\ IF Exhausted(counter[p] + 1)
               THEN /\ \E f \in FallbackCodes : code' = [code EXCEPT ![p] = f]
                    /\ Goto(p, "insert")
               ELSE /\ Goto(p, "check_code")
                    /\ UNCHANGED code
    /\ UNCHANGED <<store, clock, req, referrer, stats, pre, prior, raised, hist>>

\* insert_one returned an inserted_id (an acknowledged insert always does).
Insert(p) ==
    /\ pc[p] = "insert"
    /\ store' = Append(store, WalletDoc(store, req[p].wallet_address, code[p],
                                        req[p].referred_by, referrer[p], clock))
    /\ hist' = Append(hist, seen[p])
    /\ IF referrer[p]._id # 0
       THEN /\ Goto(p, "inc_count")
            /\ UNCHANGED locals
       ELSE Return(p, Registered(req[p], code[p]))
    /\ UNCHANGED <<clock, req, stats, pre, prior, raised>>

\* update_one $inc on the referrer returned.
Increment(p) ==
    /\ pc[p] = "inc_count"
    /\ store' = IncCount(store, referrer[p]._id)
    /\ Return(p, Registered(req[p], code[p]))
    /\ UNCHANGED <<clock, req, stats, pre, prior, raised, hist>>

\* The awaited store operation raises; except Exception (line 213) answers.
Fault(p) ==
    /\ pc[p] \in {"find_wallet", "find_referrer", "check_code", "insert",
                  "inc_count"}
    /\ raised' = [raised EXCEPT ![p] = pc[p]]
    /\ Return(p, InternalError(req[p]))
    /\ UNCHANGED <<store, clock, req, stats, pre, prior, hist>>

\* ---------------------------------------------------------- GET /stats steps
regvars == <<store, clock, pc, req, referrer, cand, counter, code, resp, pre,
             prior, raised, seen, hist, firstResp>>

\* A GET /stats request arrives.
StatsStart ==
    /\ stats.pc \in {"idle", "done"}
    /\ stats' = [StatsIdle EXCEPT !.pc = "count_total"]
    /\ UNCHANGED regvars

\* count_documents({}) returned; yesterday is computed.
StatsTotal ==
    /\ stats.pc = "count_total"
    /\ stats' = [stats EXCEPT !.pc = "count_recent", !.total = Len(store),
                              !.yesterday = Midnight(clock)]
    /\ UNCHANGED regvars

StatsRecent ==
    /\ stats.pc = "count_recent"
    /\ stats' = [stats EXCEPT !.pc = "count_referred",
                              !.recent = CountSince(store, stats.yesterday)]
    /\ UNCHANGED regvars

StatsReferred ==
    /\ stats.pc = "count_referred"
    /\ stats' = [stats EXCEPT !.pc = "find_top",
                              !.referred = CountReferred(store),
                              !.reflen = Len(store)]
    /\ UNCHANGED regvars

\* The top referrers arrived; the response is built (line 270).
StatsTop ==
    /\ stats.pc = "find_top"
    /\ LET pct == Percentage(stats.referred, stats.total) IN
       \E top \in TopReferrers(store) :
          stats' = [stats EXCEPT
                      !.pc = "done",
                      !.resp = IF pct.raised THEN StatsFailed
                               ELSE StatsOk(stats.total, stats.recent,
                                            stats.referred, pct.value, top)]
    /\ UNCHANGED regvars

\* An awaited store operation of get_stats raises (line 278).
StatsFault ==
    /\ stats.pc \in {"count_total", "count_recent", "count_referred", "find_top"}
    /\ stats' = [stats EXCEPT !.pc = "done", !.resp = StatsFailed,
                              !.raised = TRUE]
    /\ UNCHANGED regvars

\* ---------------------------------------------------------- specifications
\* No register handler is between its first and last step.
Quiescent == \A q \in Procs : pc[q] \in {"idle", "done"}

\* Register requests served one at a time (by handler 1), store operations
\* that may raise.
NextSeq ==
    \/ \E w \in AddrInputs, rb \in RefInputs :
          clock < MaxCalls /\ Quiescent /\ Start(1, w, rb)
    \/ FindWallet(1)
    \/ FindReferrer(1)
    \/ CheckCode(1)
    \/ Insert(1)
    \/ Increment(1)
    \/ Fault(1)

SpecSeq == Init /\ [][NextSeq]_vars

\* Register requests without a referral served one at a time: the allocator
\* against a store that fills up with codes.
NextAlloc ==
    \/ \E w \in AddrInputs :
          clock < MaxAllocCalls /\ Quiescent /\ Start(1, w, None)
    \/ FindWallet(1)
    \/ CheckCode(1)
    \/ Insert(1)
    \/ Fault(1)

SpecAlloc == Init /\ [][NextAlloc]_vars

\* The same requests when every store operation that is awaited returns in
\* the end (the event loop resumes a handler whose await completed); an
\* operation may still raise instead.
SpecAllocFair ==
    /\ Init /\ [][NextAlloc]_vars
    /\ WF_vars(FindWallet(1) \/ CheckCode(1) \/ Insert(1))

\* Register requests served concurrently: the handlers interleave at their
\* store operations.
NextRace ==
    \E p \in Procs :
        \/ \E w \in AddrInputs, rb \in FewRefInputs :
              clock < MaxRaceCalls /\ Start(p, w, rb)
        \/ FindWallet(p)
        \/ FindReferrer(p)
        \/ CheckCode(p)
        \/ Insert(p)
        \/ Increment(p)
        \/ Fault(p)

SpecRace == Init /\ [][NextRace]_vars

\* Addresses no document holds yet, among those requests are drawn from.
NewAddrInputs ==
    AddrInputs \ {store[i].wallet_address : i \in 1..Len(store)}

\* No handler has gone past its first lookup: a request arriving now overlaps
\* every request under way from its first store operation on.
NoneUnderWay == \A q \in Procs : pc[q] \in {"idle", "done", "find_wallet"}

\* Registrations that name a referrer, for addresses not yet registered,
\* arriving together and served concurrently by store operations that all
\* return; the referrers are registered one at a time.
NextRefer ==
    \/ \E w \in NewAddrInputs :
          clock < MaxReferCalls /\ Quiescent /\ Start(1, w, None)
    \/ \E p \in Procs, w \in NewAddrInputs,
             rb \in generate_referral_code(DefaultLength) :
          clock < MaxReferCalls /\ NoneUnderWay /\ Start(p, w, rb)
    \/ \E p \in Procs :
          \/ FindWallet(p)
          \/ FindReferrer(p)
          \/ CheckCode(p)
          \/ Insert(p)
          \/ Increment(p)

SpecRefer == Init /\ [][NextRefer]_vars

\* GET /stats requests served while register requests are (one register
\* handler, one stats handler).
NextStats ==
    \/ \E w \in AddrInputs, rb \in StatsRefInputs :
          clock < MaxStatsCalls /\ Quiescent /\ Start(1, w, rb)
    \/ FindWallet(1)
    \/ FindReferrer(1)
    \/ CheckCode(1)
    \/ Insert(1)
    \/ Increment(1)
    \/ StatsStart
    \/ StatsTotal
    \/ StatsRecent
    \/ StatsReferred
    \/ StatsTop
    \/ StatsFault

SpecStats == Init /\ [][NextStats]_vars

\* ------------------------------------------------------------------ claims
\* The handler p has returned and no store operation of its request raised.
Answered(p) == pc[p] = "done" /\ raised[p] = ""

\* The address of p's request had no document when the request arrived.
NewAddress(p) == ByWallet(pre[p], req[p].wallet_address) = {}

\* C1: a register call for an address for which an earlier call has
\* succeeded (requests served one at a time, its store operations not
\* raising) returns success=true with the referral_code of that first
\* success and the referred_by stored on the address's document, whatever
\* referred_by it carries, and leaves the store as it found it.
C1_IdempotentRegistration ==
    \A p \in Procs :
        (Answered(p) /\ prior[p].success) =>
            /\ resp[p].success
            /\ resp[p].referral_code = prior[p].referral_code
            /\ \E d \in ByWallet(pre[p], req[p].wallet_address) :
                  resp[p].referred_by = d.referred_by
            /\ store = pre[p]

\* An address registered with no referral is registered again with a code
\* nobody holds as referred_by.
C1_Witness ==
    \E p \in Procs :
        /\ Answered(p) /\ prior[p].success
        /\ req[p].referred_by = Bogus
        /\ resp[p].success /\ resp[p].referred_by = None

\* C2: with requests served one at a time, the referral_code values of the
\* documents in the store are pairwise distinct in every reachable state.
C2_CodesPairwiseDistinct ==
    \A i, j \in 1..Len(store) :
        i # j => store[i].referral_code # store[j].referral_code

\* C3: a register call for an address without a document whose referred_by
\* is not null and is no document's referral_code returns the failure
\* "Invalid referral code" with an empty referral_code, and creates nothing.
C3_UnknownReferralRejected ==
    \A p \in Procs :
        (/\ Answered(p) /\ NewAddress(p)
         /\ NotNull(req[p].referred_by)
         /\ ByCode(pre[p], req[p].referred_by) = {}) =>
            /\ resp[p] = Response(FALSE, "Invalid referral code", EmptyStr,
                                  req[p].wallet_address, None)
            /\ store = pre[p]

\* C4 as claimed: a register call for an address that has a document, with
\* referred_by that document's own referral_code, returns the failure
\* "Cannot refer yourself" and creates nothing.
C4_SelfReferralRejected ==
    \A p \in Procs :
        (/\ Answered(p)
         /\ \E d \in ByWallet(pre[p], req[p].wallet_address) :
               req[p].referred_by = d.referral_code) =>
            /\ ~resp[p].success
            /\ resp[p].message = "Cannot refer yourself"
            /\ store = pre[p]

\* C4 as amended: such a call (requests served one at a time) is answered
\* as any call for a registered address is: success=true, "Wallet already
\* registered", the document's referral_code; it creates nothing.
C4_OwnCodeIsAlreadyRegistered ==
    \A p \in Procs :
        \A d \in ByWallet(pre[p], req[p].wallet_address) :
            (Answered(p) /\ req[p].referred_by = d.referral_code) =>
                /\ resp[p].success
                /\ resp[p].message = "Wallet already registered"
                /\ resp[p].referral_code = d.referral_code
                /\ store = pre[p]

C4_Witness ==
    \E p \in Procs :
        /\ Answered(p)
        /\ \E d \in ByWallet(pre[p], req[p].wallet_address) :
              req[p].referred_by = d.referral_code
        /\ resp[p].message = "Wallet already registered"

\* C5: when a register call for a new address whose referred_by is some
\* document's referral_code returns success (requests served one at a
\* time), that document's referral_count is 1 more than when the request
\* arrived and every other document's referral_count is what it was.
C5_ReferrerCountPlusOne ==
    \A p \in Procs :
        (/\ pc[p] = "done" /\ resp[p].success /\ NewAddress(p)
         /\ ByCode(pre[p], req[p].referred_by) # {}) =>
            /\ Len(store) = Len(pre[p]) + 1
            /\ store[Len(store)].referral_count = 0
            /\ \E r \in ByCode(pre[p], req[p].referred_by) :
                  \A i \in 1..Len(pre[p]) :
                     store[i].referral_count =
                        pre[p][i].referral_count + (IF i = r._id THEN 1 ELSE 0)

\* A referrer that already had a referral gets its second one.
C5_Witness ==
    \E p \in Procs :
        /\ pc[p] = "done" /\ resp[p].success /\ NewAddress(p)
        /\ \E r \in ByCode(pre[p], req[p].referred_by) :
              /\ r.referral_count = 1
              /\ store[r._id].referral_count = 2

\* C6: a register call one of whose store operations raises (the wallet
\* lookup, the referrer lookup, a lookup of the allocator, the insert or the
\* count increment) returns a WalletResponse with success=false, message
\* "Internal server error" and an empty referral_code.
C6_FaultGivesInternalServerError ==
    \A p \in Procs :
        raised[p] # "" =>
            /\ pc[p] = "done"
            /\ resp[p] = Response(FALSE, "Internal server error", EmptyStr,
                                  req[p].wallet_address, None)

\* The count increment raised, after the insert.
C6_Witness ==
    \E p \in Procs :
        /\ raised[p] = "inc_count"
        /\ Len(store) = Len(pre[p]) + 1
        /\ ~resp[p].success

\* C7: two documents hold the same wallet_address only when the handler
\* that inserted the later one looked the address up before the earlier one
\* was inserted: both passed the existence check before either inserted.
C7_DuplicateAddressOnlyByRace ==
    \A i, j \in 1..Len(store) :
        (i < j /\ store[i].wallet_address = store[j].wallet_address) =>
            hist[j].wallet < i

\* Two concurrent calls for one new address both returned success, with
\* different codes, and the store holds two documents of that address.
C7_Witness ==
    /\ \A p \in Procs : pc[p] = "done" /\ resp[p].success
    /\ req[1].wallet_address = req[2].wallet_address
    /\ resp[1].referral_code # resp[2].referral_code
    /\ Len(store) = 2
    /\ store[1].wallet_address = store[2].wallet_address

\* C8: two documents hold the same allocator-checked referral_code only
\* when the handler that inserted the later one found the candidate absent
\* before the earlier one was inserted.
C8_DuplicateCodeOnlyByRace ==
    \A i, j \in 1..Len(store) :
        (/\ i < j
         /\ store[i].referral_code = store[j].referral_code
         /\ store[j].referral_code.kind = "alnum") =>
            hist[j].code < i

\* Two concurrent calls for different new addresses drew the same candidate
\* and both inserted it.
C8_Witness ==
    /\ Len(store) = 2
    /\ store[1].wallet_address # store[2].wallet_address
    /\ store[1].referral_code = store[2].referral_code
    /\ \A p \in Procs : pc[p] = "done" /\ resp[p].success

\* The second call of C9: the same request again, for an address whose
\* first success was its registration with no referral.
RegisteredAgain(p) ==
    /\ Answered(p)
    /\ prior[p].success
    /\ prior[p].message = "Wallet registered successfully"
    /\ prior[p].referred_by = None
    /\ req[p].referred_by = None

\* C9 as claimed: the second response equals the first in every field.
C9_IdenticalResponse ==
    \A p \in Procs : RegisteredAgain(p) => resp[p] = prior[p]

\* C9 as amended: the second response equals the first in success,
\* referral_code, wallet_address and referred_by; its message is "Wallet
\* already registered" where the first's was "Wallet registered
\* successfully".
C9_IdenticalButMessage ==
    \A p \in Procs :
        RegisteredAgain(p) =>
            resp[p] = [prior[p] EXCEPT !.message = "Wallet already registered"]

C9_Witness ==
    \E p \in Procs : RegisteredAgain(p) /\ resp[p].success

\* What C10 says of every answer of GET /stats but the bound on
\* wallets_with_referral: the handler fails only when a store operation
\* raised (never by dividing by zero); the percentage is 0 when the total
\* is 0 and otherwise the hundredth of a percent nearest to
\* wallets_with_referral / total.
StatsPercentageRight ==
    /\ ~stats.raised => stats.resp.status = 200
    /\ stats.resp.status = 200 =>
          LET total == stats.resp.total_registered_wallets
              referred == stats.resp.wallets_with_referral
              pct == stats.resp.referral_percentage
          IN  /\ total = 0 => pct = 0
              /\ total > 0 =>
                    /\ 2 * (pct * total - referred * 10000) <= total
                    /\ 2 * (referred * 10000 - pct * total) <= total

\* C10 as claimed: and wallets_with_referral never exceeds
\* total_registered_wallets.
C10_StatsPercentage ==
    stats.pc = "done" =>
        /\ StatsPercentageRight
        /\ stats.resp.wallets_with_referral <= stats.resp.total_registered_wallets

\* C10 as amended: wallets_with_referral does not exceed
\* total_registered_wallets when no document was inserted between the
\* handler's count of all documents and its count of the referred ones.
C10_StatsPercentageQuiet ==
    stats.pc = "done" =>
        /\ StatsPercentageRight
        /\ stats.reflen = stats.total =>
              stats.resp.wallets_with_referral
                 <= stats.resp.total_registered_wallets

\* An answer over a store of three documents, two of them referred: 66.67.
C10_Witness ==
    /\ stats.pc = "done" /\ stats.resp.status = 200
    /\ stats.reflen = stats.total
    /\ stats.resp.total_registered_wallets = 3
    /\ stats.resp.wallets_with_referral = 2
    /\ stats.resp.referral_percentage = 6667

\* C11: the allocator checks candidates in turn and returns the first it
\* finds absent from the store; the candidate checked after no collision has
\* length 6, after 1 to 4 collisions length 7, after 5 to 10 collisions
\* length 8; the fallback "REF" + 10 hex digits is returned exactly when more
\* than 10 checks have collided (on the 11th collision), after 11 lookups
\* none of which was for the fallback.
C11_AllocatorLadder ==
    \A p \in Procs :
        /\ pc[p] = "check_code" =>
              /\ counter[p] <= 10
              /\ seen[p].lookups = counter[p]
              /\ cand[p].kind = "alnum"
              /\ cand[p].len = IF counter[p] = 0 THEN 6
                               ELSE IF counter[p] <= 4 THEN 7 ELSE 8
        /\ pc[p] = "insert" =>
              IF counter[p] > 10
              THEN /\ counter[p] = 11
                   /\ seen[p].lookups = 11
                   /\ code[p].kind = "ref"
                   /\ code[p].len = 13
              ELSE /\ code[p] = cand[p]
                   /\ code[p].kind = "alnum"
                   /\ code[p].len = IF counter[p] = 0 THEN 6
                                    ELSE IF counter[p] <= 4 THEN 7 ELSE 8
                   /\ seen[p].lookups = counter[p] + 1
                   /\ ~CodeTaken(store, code[p])

\* An allocation came back with the fallback while the store already holds
\* a document with that very code; another came back with a length-8 code.
C11_Witness ==
    /\ pc[1] = "insert"
    /\ code[1].kind = "ref"
    /\ CodeTaken(store, code[1])
    /\ \E i \in 1..Len(store) :
          store[i].referral_code.len = 8 /\ hist[i].lookups = 6

\* C12: the allocator makes at most 11 existence lookups whatever the store
\* holds and whatever is drawn, and a register call whose store operations
\* each return ends with a response.
C12_BoundedAllocation ==
    /\ [](\A p \in Procs :
            /\ seen[p].lookups <= 11
            /\ pc[p] = "check_code" => seen[p].lookups <= 10)
    /\ \A p \in Procs :
          (pc[p] \notin {"idle", "done"}) ~> (pc[p] = "done")

\* A document was inserted with a code that took the allocator 11 lookups,
\* and its call has responded.
C12_Witness ==
    /\ pc[1] = "done"
    /\ resp[1].success
    /\ Len(store) > 0
    /\ hist[Len(store)].lookups = 11
    /\ store[Len(store)].wallet_address = resp[1].wallet_address

\* Handler p takes the step.
StepOf(p) == pc'[p] # pc[p] \/ seen'[p] # seen[p]

\* C13: no step a handler takes inside the allocator (a lookup returning, or
\* an operation raising there) changes the store; the store changes only by
\* a handler's insert of the document for its own address and allocated
\* code, or by its increment of its referrer's referral_count by one, both
\* after its allocation has returned.
C13_AllocationWritesNothing ==
    [][/\ \A p \in Procs :
             pc[p] = "check_code" /\ StepOf(p) => store' = store
       /\ store' # store =>
             \E p \in Procs :
                 /\ StepOf(p)
                 /\ code[p] # None
                 /\ \/ /\ pc[p] = "insert"
                       /\ Len(store') = Len(store) + 1
                       /\ SubSeq(store', 1, Len(store)) = store
                       /\ store'[Len(store')].wallet_address =
                              req[p].wallet_address
                       /\ store'[Len(store')].referral_code = code[p]
                    \/ /\ pc[p] = "inc_count"
                       /\ referrer[p]._id \in 1..Len(store)
                       /\ store' = [store EXCEPT
                              ![referrer[p]._id].referral_count = @ + 1]]_vars

\* An allocation that needed a second lookup has returned and the store is
\* as the call found it.
C13_Witness ==
    \E p \in Procs :
        /\ pc[p] = "insert"
        /\ seen[p].lookups >= 2
        /\ Len(store) > 0
        /\ store = pre[p]

\* C14: across every step of every interleaving no document is deleted, no
\* document's wallet_address, referral_code, referred_by, referred_by_wallet
\* or created_at changes, and a referral_count stays or grows by one.
C14_RecordsImmutable ==
    [][/\ Len(store') >= Len(store)
       /\ \A i \in 1..Len(store) :
             /\ store'[i].wallet_address = store[i].wallet_address
             /\ store'[i].referral_code = store[i].referral_code
             /\ store'[i].referred_by = store[i].referred_by
             /\ store'[i].referred_by_wallet = store[i].referred_by_wallet
             /\ store'[i].created_at = store[i].created_at
             /\ store'[i].referral_count \in
                    {store[i].referral_count, store[i].referral_count + 1}]_vars

\* A document's referral_count has been incremented with a later document
\* in the store, the two registered by different handlers.
C14_Witness ==
    /\ Len(store) = 2
    /\ store[1].referral_count = 1
    /\ store[2].created_at > store[1].created_at
    /\ store[2].referred_by = store[1].referral_code
    /\ \A p \in Procs : pc[p] = "done" /\ resp[p].success

\* The documents of s referred by code c.
ReferredBy(s, c) == {i \in 1..Len(s) : s[i].referred_by = c}

\* C15: in every reachable state, whatever the interleaving and with the
\* increment free to raise or to be still pending, no document's
\* referral_count exceeds the number of documents whose referred_by is its
\* referral_code.
C15_CountNeverAhead ==
    \A i \in 1..Len(store) :
        store[i].referral_count
            <= Cardinality(ReferredBy(store, store[i].referral_code))

\* The increment raised after the insert: the referrer's count is behind.
C15_Witness ==
    \E p \in Procs :
        /\ pc[p] = "done"
        /\ raised[p] = "inc_count"
        /\ \E i \in 1..Len(store) :
              /\ store[i].referral_count = 0
              /\ Cardinality(ReferredBy(store, store[i].referral_code)) = 1

\* The referral_counts of the documents of s[1..n] that hold code c, summed.
RECURSIVE CountsOf(_, _, _)
CountsOf(s, c, n) ==
    IF n = 0 THEN 0
    ELSE CountsOf(s, c, n - 1)
            + (IF s[n].referral_code = c THEN s[n].referral_count ELSE 0)

\* The handlers that have inserted a document referred by code c and have
\* not incremented yet.
Pending(c) ==
    {p \in Procs : pc[p] = "inc_count" /\ referrer[p].referral_code = c}

\* C16: with store operations that all return, every successful registration
\* naming a referrer adds exactly one to the referrer's referral_count,
\* however the calls overlap: the counts under a code, plus the increments
\* of handlers that have inserted and not yet incremented, equal the number
\* of documents referred by the code, so N overlapping calls for N new
\* addresses naming one referrer leave its count increased by exactly N.
C16_NoLostUpdate ==
    \A i \in 1..Len(store) :
        LET c == store[i].referral_code IN
            CountsOf(store, c, Len(store)) + Cardinality(Pending(c))
                = Cardinality(ReferredBy(store, c))

\* Two calls for two new addresses that both began before either inserted,
\* both naming the one holder of a code, have both succeeded, and the
\* referrer's count went from 0 to 2.
C16_Witness ==
    /\ \A p \in Procs :
          /\ pc[p] = "done"
          /\ resp[p].success
          /\ resp[p].message = "Wallet registered successfully"
          /\ req[p].referred_by = store[1].referral_code
          /\ Len(pre[p]) = 1
          /\ pre[p][1].referral_count = 0
    /\ req[1].wallet_address # req[2].wallet_address
    /\ Len(store) = 3
    /\ store[1].referral_count = 2

\* C17: with requests served one at a time, every document has either
\* referred_by and referred_by_wallet both null, or a referred_by that is the
\* referral_code of a document whose wallet_address is its
\* referred_by_wallet; none has a non-null referred_by with a null
\* referred_by_wallet.
C17_ReferralLinkage ==
    \A i \in 1..Len(store) :
        \/ /\ store[i].referred_by = None
           /\ store[i].referred_by_wallet = NoWallet
        \/ /\ NotNull(store[i].referred_by)
           /\ store[i].referred_by_wallet # NoWallet
           /\ \E j \in 1..Len(store) :
                 /\ store[j].referral_code = store[i].referred_by
                 /\ store[j].wallet_address = store[i].referred_by_wallet

\* C18: whenever a register call has returned success=false, whatever the
\* reason (a store operation raising at any step included), the store is as
\* the call found it.
C18_FailureWritesNothing ==
    \A p \in Procs :
        pc[p] = "done" /\ ~resp[p].success => store = pre[p]

\* C19: under every interleaving no document's referred_by_wallet is its own
\* wallet_address.
C19_NoSelfReferredRecord ==
    \A i \in 1..Len(store) :
        store[i].referred_by_wallet # store[i].wallet_address

\* Of two overlapping calls for one new address, one was given a code and
\* stored, and the other, naming that code, was answered "Cannot refer
\* yourself".
C19_Witness ==
    \E p \in Procs :
        /\ pc[p] = "done"
        /\ NewAddress(p)
        /\ resp[p].message = "Cannot refer yourself"
        /\ \E i \in 1..Len(store) :
              /\ store[i].wallet_address = req[p].wallet_address
              /\ store[i].referral_code = req[p].referred_by

====
